---- MODULE Spec2Model ----
(***************************************************************************)
(* Model of src/app.py, the "Concierge Time Table" reservation analyser.   *)
(*                                                                         *)
(* One run of main() is a pipeline: the records are normalised; a location,*)
(* an operating-hours window and a date filter are selected; the slot grid *)
(* and the in-range reservations are computed by calculate_time_slots, the *)
(* hidden count is reported, the weekly rows and their runs are computed   *)
(* and create_heatmap computes the per-date rows, the average row and the  *)
(* runs of each row.                                                       *)
(*                                                                         *)
(* Strings are sequences of one-character strings, so that formatting and  *)
(* parsing are computed and not assumed.  A raw datetime string            *)
(* "M/D/Y h:mm XM" is modelled by its tokens.  Python floats that are      *)
(* quotients of small integers are modelled as exact fractions <<n, d>>.   *)
(***************************************************************************)
EXTENDS Integers, Sequences, FiniteSets, TLC

VARIABLES
    pc,                     \* position of the run of main() / of the function on its own
    data,                   \* the records: raw, then normalised (lines 514-518)
    selected_location,      \* line 536
    location_filtered_data, \* line 544
    start_hour, end_hour,   \* lines 551, 553
    selected_location_date, \* line 564
    time_slots,             \* calculate_time_slots' first result
    reservation_data,       \* calculate_time_slots' second result (filtered_data)
    info,                   \* what st.info reports (lines 574-587) / st.sidebar.error (556)
    z_data_weekly,          \* lines 616-668: the 7 day rows, then the Util. Rate row
    weekly_runs,            \* the rectangles drawn by lines 836-859, per day row
    z_data_summary,         \* create_heatmap: date rows (latest first), then the average row
    y_labels_summary,       \* create_heatmap: the group of each row
    summary_runs,           \* the rectangles drawn by lines 370-389, per row
    t_minutes, t_string, t_result,        \* minutes_to_time / time_to_minutes on their own
    scan_row, scan_threshold, scan_runs, scan_again, \* the run scan on its own
    util_cap                \* the cap configured, when lines 616-668 are run at a given cap

vars == <<pc, data, selected_location, location_filtered_data, start_hour, end_hour,
          selected_location_date, time_slots, reservation_data, info, z_data_weekly,
          weekly_runs, z_data_summary, y_labels_summary, summary_runs,
          t_minutes, t_string, t_result, scan_row, scan_threshold, scan_runs, scan_again,
          util_cap>>

mainVars == <<data, selected_location, location_filtered_data, start_hour, end_hour,
              selected_location_date, time_slots, reservation_data, info, z_data_weekly,
              weekly_runs, z_data_summary, y_labels_summary, summary_runs>>

timeVars == <<t_minutes, t_string, t_result>>

scanVars == <<scan_row, scan_threshold, scan_runs, scan_again>>

utilVars == <<util_cap>>

(***************************************************************************)
(* Bounds of the model.                                                    *)
(***************************************************************************)
\* the largest number of records of an input
MaxRecords == 3

\* the rows given to the run scan on its own: length, largest value, largest threshold
MaxRowLen == 7

MaxRowVal == 2

MaxThreshold == 2

\* the runs at a configured cap: the largest cap and the largest number of records
MaxCap == 2

UtilRecords == 2

\* the largest number of records at the edges of a window
EdgeRecords == 2

(***************************************************************************)
(* Strings.                                                                *)
(***************************************************************************)
Digits == <<"0", "1", "2", "3", "4", "5", "6", "7", "8", "9">>

IsDigit(c) == \E i \in 1..10 : Digits[i] = c

DigitVal(c) == (CHOOSE i \in 1..10 : Digits[i] = c) - 1

\* the list with the elements f[1], ..., f[n], each computed once
List(f) == f \o <<>>

RECURSIVE DecStr(_)
\* str(n) / format(n, "d") for n >= 0
DecStr(n) == IF n < 10 THEN <<Digits[n + 1]>>
             ELSE DecStr(n \div 10) \o <<Digits[(n % 10) + 1]>>

\* format(n, "02d") for n >= 0: zero padded to at least two characters
Pad2(n) == IF n < 10 THEN <<"0">> \o DecStr(n) ELSE DecStr(n)

RECURSIVE SplitColon(_)
\* s.split(':')
SplitColon(s) ==
    IF \A i \in 1..Len(s) : s[i] # ":"
    THEN <<s>>
    ELSE LET k == CHOOSE i \in 1..Len(s) : s[i] = ":" /\ \A j \in 1..(i - 1) : s[j] # ":"
         IN  <<SubSeq(s, 1, k - 1)>> \o SplitColon(SubSeq(s, k + 1, Len(s)))

\* whether int(s) succeeds, for the strings made of digits and ':' the program builds
IntOk(s) == Len(s) > 0 /\ \A i \in 1..Len(s) : IsDigit(s[i])

RECURSIVE IntOf(_)
\* int(s)
IntOf(s) == IF Len(s) = 0 THEN 0
            ELSE 10 * IntOf(SubSeq(s, 1, Len(s) - 1)) + DigitVal(s[Len(s)])

(***************************************************************************)
(* Time arithmetic (lines 196-208).                                        *)
(***************************************************************************)
\* time_to_minutes: any failure of the split, the unpacking or int() gives 0
time_to_minutes(time_str) ==
    LET parts == SplitColon(time_str)
    IN  IF Len(parts) = 2 /\ IntOk(parts[1]) /\ IntOk(parts[2])
        THEN IntOf(parts[1]) * 60 + IntOf(parts[2])
        ELSE 0

\* a slip: the hour is formatted on a 12-hour clock
minutes_to_time_12h(minutes) ==
    Pad2((minutes \div 60) % 12) \o <<":">> \o Pad2(minutes % 60)

\* minutes_to_time
minutes_to_time(minutes) ==
    LET hours == minutes \div 60
        mins  == minutes % 60
    IN  Pad2(hours) \o <<":">> \o Pad2(mins)

(***************************************************************************)
(* Fractions: quotients of integers, kept in lowest terms.                 *)
(***************************************************************************)
RECURSIVE Gcd(_, _)
Gcd(a, b) == IF b = 0 THEN a ELSE Gcd(b, a % b)

\* the value n / d, for n >= 0 and d > 0
Frac(n, d) == IF n = 0 THEN <<0, 1>>
              ELSE LET g == Gcd(n, d) IN <<n \div g, d \div g>>

FracAdd(x, y) == IF x[1] = 0 THEN y
                 ELSE IF y[1] = 0 THEN x
                 ELSE Frac(x[1] * y[2] + y[1] * x[2], x[2] * y[2])

\* x / k and x * k, for an integer k > 0
FracDiv(x, k) == IF x[1] = 0 THEN x ELSE Frac(x[1], x[2] * k)

FracMul(x, k) == IF x[1] = 0 THEN x ELSE Frac(x[1] * k, x[2])

\* x >= k, for an integer k
FracGe(x, k) == x[1] >= k * x[2]

RECURSIVE FracSumRange(_, _, _)
\* xs[lo] + ... + xs[hi]
FracSumRange(xs, lo, hi) ==
    IF lo > hi THEN <<0, 1>>
    ELSE IF lo = hi THEN xs[lo]
    ELSE LET mid == (lo + hi) \div 2
         IN  FracAdd(FracSumRange(xs, lo, mid), FracSumRange(xs, mid + 1, hi))

\* sum(xs) for fractions
FracSum(xs) == FracSumRange(xs, 1, Len(xs))

RECURSIVE SumRange(_, _, _)
SumRange(xs, lo, hi) ==
    IF lo > hi THEN 0
    ELSE IF lo = hi THEN xs[lo]
    ELSE LET mid == (lo + hi) \div 2
         IN  SumRange(xs, lo, mid) + SumRange(xs, mid + 1, hi)

\* sum(xs) for integers
SumSeq(xs) == SumRange(xs, 1, Len(xs))

(***************************************************************************)
(* Location capacity settings (lines 69-78).                               *)
(***************************************************************************)
\* get_location_cap: LOCATION_CAPS.get(location, LOCATION_CAPS["default"])
get_location_cap(location) ==
    CASE location = "Denver" -> 40
      [] location = "Tampa" -> 10
      [] location = "San Francisco" -> 2
      [] OTHER -> 3

(***************************************************************************)
(* Reservation normaliser (lines 159-194).                                 *)
(*                                                                         *)
(* A datetime string is modelled by the tokens of "M/D/Y h:mm XM": month,  *)
(* day, the year as written with ydigits digits, hour, minute, and the     *)
(* AM/PM marker, "" when the marker is missing.                            *)
(***************************************************************************)
DT(mo, d, y, yd, h, mi, ap) ==
    [month |-> mo, day |-> d, year |-> y, ydigits |-> yd, hour |-> h, minute |-> mi, ampm |-> ap]

\* Python's None, and a string that is no string of the program
None == <<"<None>">>

\* parse_datetime's None
NoDatetime == [year |-> 0, month |-> 0, day |-> 0, hour |-> 0, minute |-> 0]

\* datetime.min
DatetimeMin == [year |-> 1, month |-> 1, day |-> 1, hour |-> 0, minute |-> 0]

IsLeap(y) == y % 4 = 0 /\ (y % 100 # 0 \/ y % 400 = 0)

DaysInMonth(y, m) ==
    CASE m \in {1, 3, 5, 7, 8, 10, 12} -> 31
      [] m \in {4, 6, 9, 11} -> 30
      [] OTHER -> IF IsLeap(y) THEN 29 ELSE 28

\* the year a directive reads: %y maps 00-68 to 2000-2068 and 69-99 to 1969-1999
YearOf(s, yd) == IF yd = 2 THEN (IF s.year < 69 THEN 2000 + s.year ELSE 1900 + s.year)
                 ELSE s.year

\* whether datetime.strptime(s, "%m/%d/%y %I:%M %p") (yd = 2) or "...%Y..." (yd = 4) succeeds
StrptimeOk(s, yd) ==
    /\ s.ydigits = yd
    /\ s.month \in 1..12
    /\ s.day \in 1..DaysInMonth(YearOf(s, yd), s.month)
    /\ s.hour \in 1..12
    /\ s.minute \in 0..59
    /\ s.ampm \in {"AM", "PM"}

Strptime(s, yd) ==
    [year |-> YearOf(s, yd), month |-> s.month, day |-> s.day,
     hour |-> (s.hour % 12) + (IF s.ampm = "PM" THEN 12 ELSE 0), minute |-> s.minute]

\* parse_datetime: the two-digit year first, then the four-digit year, then None
parse_datetime(datetime_str) ==
    IF StrptimeOk(datetime_str, 2) THEN Strptime(datetime_str, 2)
    ELSE IF StrptimeOk(datetime_str, 4) THEN Strptime(datetime_str, 4)
    ELSE NoDatetime

\* a slip: the fallback is the time of the tokens as written
extract_time_only_raw(datetime_str) ==
    Pad2(datetime_str.hour) \o <<":">> \o Pad2(datetime_str.minute)

\* extract_time_only: dt.strftime("%H:%M"), or "00:00"
extract_time_only(datetime_str) ==
    LET dt == parse_datetime(datetime_str)
    IN  IF dt # NoDatetime THEN Pad2(dt.hour) \o <<":">> \o Pad2(dt.minute)
        ELSE <<"0", "0", ":", "0", "0">>

\* extract_date_only: f"{dt.month}/{dt.day}", or ""
extract_date_only(datetime_str) ==
    LET dt == parse_datetime(datetime_str)
    IN  IF dt # NoDatetime THEN DecStr(dt.month) \o <<"/">> \o DecStr(dt.day)
        ELSE <<>>

\* date.toordinal(): days since 0001-01-01, that day being 1
ToOrdinal(y, m, d) ==
    LET y1 == y - 1
        before == [k \in 1..12 |-> SumSeq([j \in 1..(k - 1) |-> DaysInMonth(y, j)])]
    IN  y1 * 365 + (y1 \div 4) - (y1 \div 100) + (y1 \div 400) + before[m] + d

\* date.weekday(): Monday is 0
Weekday(dt) == (ToOrdinal(dt.year, dt.month, dt.day) + 6) % 7

day_order == <<"Mo", "Tu", "We", "Th", "Fr", "Sa", "Su">>

\* get_day_of_week
get_day_of_week(datetime_str) ==
    LET dt == parse_datetime(datetime_str)
    IN  IF dt # NoDatetime THEN day_order[Weekday(dt) + 1] ELSE ""

\* extract_full_date
extract_full_date(datetime_str) ==
    LET dt == parse_datetime(datetime_str)
    IN  IF dt # NoDatetime THEN dt ELSE DatetimeMin

\* datetime's order
DatetimeLe(a, b) ==
    LET ka == <<a.year, a.month, a.day, a.hour, a.minute>>
        kb == <<b.year, b.month, b.day, b.hour, b.minute>>
    IN  \/ ka = kb
        \/ \E i \in 1..5 : ka[i] < kb[i] /\ \A j \in 1..(i - 1) : ka[j] = kb[j]

(***************************************************************************)
(* calculate_time_slots (lines 214-257).                                   *)
(***************************************************************************)
AllDates == <<"A", "l", "l", " ", "D", "a", "t", "e", "s">>

\* the truth value of an optional string: None and "" are false
Truthy(x) == x # None /\ x # <<>>

\* lines 216-217: the optional restriction to one location-date
FilterByLocationDate(items, sel) ==
    IF Truthy(sel) /\ sel # AllDates
    THEN SelectSeq(items, LAMBDA item : item.location_date = sel)
    ELSE items

\* a slip: the end hour is in the range
EmptySlotsInclusive(sh, eh) ==
    List([k \in 1..(IF eh >= sh THEN (eh + 1 - sh) * 6 ELSE 0) |->
        LET hour == sh + ((k - 1) \div 6)
            minute == ((k - 1) % 6) * 10
            slot_minutes == hour * 60 + minute
        IN  [time |-> minutes_to_time(slot_minutes), minutes |-> slot_minutes,
             count |-> 0, reservations |-> <<>>]])

\* lines 219-228: range(start_hour, end_hour) x range(0, 60, 10), before any reservation
EmptySlots(sh, eh) ==
    List([k \in 1..(IF eh > sh THEN (eh - sh) * 6 ELSE 0) |->
        LET hour == sh + ((k - 1) \div 6)
            minute == ((k - 1) % 6) * 10
            slot_minutes == hour * 60 + minute
        IN  [time |-> minutes_to_time(slot_minutes), minutes |-> slot_minutes,
             count |-> 0, reservations |-> <<>>]])

\* line 239: the buffer [t-30, t+30) meets [start_hour*60, end_hour*60)
InRange(item, sh, eh) ==
    LET reservation_minutes == time_to_minutes(item.time)
        reservation_start == reservation_minutes - 30
        reservation_end == reservation_minutes + 30
    IN  reservation_end > sh * 60 /\ reservation_start < eh * 60

\* a slip: the buffer begins 20 minutes before the reservation
CoversFrom20(original_minutes, slot_minutes) ==
    original_minutes - 20 <= slot_minutes /\ slot_minutes < original_minutes + 30

\* a slip: the buffer closed at its end
CoversClosed(original_minutes, slot_minutes) ==
    original_minutes - 30 <= slot_minutes /\ slot_minutes <= original_minutes + 30

\* lines 244-249 (and 288-293, 601-606): the slot's start lies in the buffer [t-30, t+30)
Covers(original_minutes, slot_minutes) ==
    LET start_minutes_res == original_minutes - 30
        end_minutes_res == original_minutes + 30
    IN  start_minutes_res <= slot_minutes /\ slot_minutes < end_minutes_res

\* lines 243, 287, 600: time_to_minutes(item['time']), once for each item
OriginalMinutes(items) ==
    List([k \in 1..Len(items) |-> [id |-> items[k].id,
                                    minutes |-> time_to_minutes(items[k].time)]])

\* the number of the items whose buffer covers the slot
Hits(buffers, slot_minutes) ==
    Len(SelectSeq(buffers, LAMBDA b : Covers(b.minutes, slot_minutes)))

\* lines 250-255: the count and the attribution of one slot
AttributeSlot(slot, hits) ==
    [slot EXCEPT !.count = Len(hits),
                 !.reservations = List([i \in 1..Len(hits) |-> hits[i].id])]

\* lines 242-255: every slot receives the items whose buffer covers its start
Attribute(slots0, buffers) ==
    List([k \in 1..Len(slots0) |->
            AttributeSlot(slots0[k],
                          SelectSeq(buffers, LAMBDA b : Covers(b.minutes, slots0[k].minutes)))])

\* lines 242-257
CountSlots(slots0, filtered_data) ==
    [time_slots |-> Attribute(slots0, OriginalMinutes(filtered_data)),
     filtered_data |-> filtered_data]

calculate_time_slots(items, sh, eh, sel) ==
    CountSlots(EmptySlots(sh, eh),
               SelectSeq(FilterByLocationDate(items, sel), LAMBDA item : InRange(item, sh, eh)))

(***************************************************************************)
(* main (lines 459-940), up to the call of calculate_time_slots.           *)
(***************************************************************************)
\* lines 514-518
ProcessItem(item) ==
    [location |-> item.location, id |-> item.id, datetime |-> item.datetime,
     time |-> extract_time_only(item.datetime),
     date |-> extract_date_only(item.datetime),
     day_of_week |-> get_day_of_week(item.datetime),
     location_date |-> extract_date_only(item.datetime)]

\* lines 509-518: no data is an error; else every record is normalised in place
ProcessData ==
    /\ pc = "process"
    /\ IF data = <<>>
       THEN /\ pc' = "done"
            /\ info' = [error |-> "No data available"]
            /\ data' = data
       ELSE /\ pc' = "select_location"
            /\ data' = List([i \in 1..Len(data) |-> ProcessItem(data[i])])
            /\ info' = info
    /\ UNCHANGED <<selected_location, location_filtered_data, start_hour, end_hour,
                   selected_location_date, time_slots, reservation_data, z_data_weekly,
                   weekly_runs, z_data_summary, y_labels_summary, summary_runs>>
    /\ UNCHANGED <<timeVars, scanVars, utilVars>>

\* lines 520-544: one of the locations of the data is selected
SelectLocation ==
    /\ pc = "select_location"
    /\ \E loc \in {data[i].location : i \in 1..Len(data)} :
          /\ selected_location' = loc
          /\ location_filtered_data' = SelectSeq(data, LAMBDA item : item.location = loc)
    /\ pc' = "select_hours"
    /\ UNCHANGED <<data, start_hour, end_hour, selected_location_date, time_slots,
                   reservation_data, info, z_data_weekly, weekly_runs, z_data_summary,
                   y_labels_summary, summary_runs>>
    /\ UNCHANGED <<timeVars, scanVars, utilVars>>

\* a slip: the hours are not compared
SelectHoursUnchecked(hours) ==
    /\ pc = "select_hours"
    /\ \E h \in hours :
          /\ start_hour' = h[1]
          /\ end_hour' = h[2]
    /\ pc' = "select_date"
    /\ UNCHANGED <<data, selected_location, location_filtered_data, selected_location_date,
                   time_slots, reservation_data, info, z_data_weekly, weekly_runs,
                   z_data_summary, y_labels_summary, summary_runs>>
    /\ UNCHANGED <<timeVars, scanVars, utilVars>>

\* lines 551-557: the operating hours, each from its select box; start >= end ends the run
SelectHours(hours) ==
    /\ pc = "select_hours"
    /\ \E h \in hours :
          /\ start_hour' = h[1]
          /\ end_hour' = h[2]
          /\ IF h[1] >= h[2]
             THEN /\ pc' = "done"
                  /\ info' = [error |-> "End hour must be later than start hour."]
             ELSE /\ pc' = "select_date"
                  /\ info' = info
    /\ UNCHANGED <<data, selected_location, location_filtered_data, selected_location_date,
                   time_slots, reservation_data, z_data_weekly, weekly_runs, z_data_summary,
                   y_labels_summary, summary_runs>>
    /\ UNCHANGED <<timeVars, scanVars, utilVars>>

\* lines 560-567: "All Dates" or one of the location-dates of the selected location
SelectDate ==
    /\ pc = "select_date"
    /\ \E sel \in {AllDates} \cup {location_filtered_data[i].location_date :
                                    i \in 1..Len(location_filtered_data)} :
          selected_location_date' = sel
    /\ pc' = "calculate"
    /\ UNCHANGED <<data, selected_location, location_filtered_data, start_hour, end_hour,
                   time_slots, reservation_data, info, z_data_weekly, weekly_runs,
                   z_data_summary, y_labels_summary, summary_runs>>
    /\ UNCHANGED <<timeVars, scanVars, utilVars>>

\* the two results of the call are kept
KeepSlots(r) ==
    /\ time_slots' = r.time_slots
    /\ reservation_data' = r.filtered_data

\* lines 570-571
CalculateTimeSlots ==
    /\ pc = "calculate"
    /\ KeepSlots(calculate_time_slots(location_filtered_data, start_hour, end_hour,
                    IF selected_location_date = AllDates THEN None
                    ELSE selected_location_date))
    /\ pc' = "info"
    /\ UNCHANGED <<data, selected_location, location_filtered_data, start_hour, end_hour,
                   selected_location_date, info, z_data_weekly, weekly_runs,
                   z_data_summary, y_labels_summary, summary_runs>>
    /\ UNCHANGED <<timeVars, scanVars, utilVars>>

\* lines 214-257 called with the hours as they are given, main's comparison of lines
\* 555-557 not being part of calculate_time_slots
DirectCall(hours) ==
    /\ pc = "select_hours"
    /\ \E h \in hours :
          /\ start_hour' = h[1]
          /\ end_hour' = h[2]
          /\ KeepSlots(calculate_time_slots(location_filtered_data, h[1], h[2], None))
    /\ pc' = "called"
    /\ UNCHANGED <<data, selected_location, location_filtered_data, selected_location_date,
                   info, z_data_weekly, weekly_runs, z_data_summary, y_labels_summary,
                   summary_runs>>
    /\ UNCHANGED <<timeVars, scanVars, utilVars>>

\* lines 574-587: the cap, the total, and the hidden count when it is positive
ShowInfo ==
    /\ pc = "info"
    /\ LET location_cap == get_location_cap(selected_location)
           total_filtered == Len(reservation_data)
           total_original ==
               Len(SelectSeq(location_filtered_data,
                             LAMBDA item : \/ selected_location_date = AllDates
                                           \/ item.location_date = selected_location_date))
       IN  info' = [cap |-> location_cap,
                    total |-> Len(location_filtered_data),
                    hidden |-> IF total_filtered < total_original
                               THEN <<total_original - total_filtered>>
                               ELSE <<>>]
    /\ pc' = "weekly"
    /\ UNCHANGED <<data, selected_location, location_filtered_data, start_hour, end_hour,
                   selected_location_date, time_slots, reservation_data, z_data_weekly,
                   weekly_runs, z_data_summary, y_labels_summary, summary_runs>>
    /\ UNCHANGED <<timeVars, scanVars, utilVars>>

(***************************************************************************)
(* The run scan (lines 370-389 and 836-859): ge[i] is "row[i] >= threshold" *)
(* and a run is a pair <<start_i, end_i>> of 0-based indices, end exclusive.*)
(***************************************************************************)
RECURSIVE RunEnd(_, _)
\* the inner while loop: i advances while i < len(times) and the value is >= threshold
RunEnd(ge, i) == IF i < Len(ge) /\ ge[i + 1] THEN RunEnd(ge, i + 1) ELSE i

RECURSIVE ScanFrom(_, _)
\* the outer while loop from index i
ScanFrom(ge, i) ==
    IF i >= Len(ge) THEN <<>>
    ELSE IF ge[i + 1]
         THEN LET end_i == RunEnd(ge, i)
              IN  <<<<i, end_i>>>> \o ScanFrom(ge, end_i)
         ELSE ScanFrom(ge, i + 1)

RECURSIVE ScanSingles(_, _)
\* a slip: the inner loop is left after one slot
ScanSingles(ge, i) ==
    IF i >= Len(ge) THEN <<>>
    ELSE IF ge[i + 1] THEN <<<<i, i + 1>>>> \o ScanSingles(ge, i + 1)
         ELSE ScanSingles(ge, i + 1)

\* a slip: one rectangle per slot
RunScanSingles(ge) == ScanSingles(ge, 0)

RunScan(ge) == ScanFrom(ge, 0)

\* lines 373-376: val >= location_cap on a row of integers
GeInt(row, threshold) == List([i \in 1..Len(row) |-> row[i] >= threshold])

\* lines 843-846: val >= weekly_cap_threshold on the first n entries of a row of fractions
GeFrac(row, n, threshold) == List([i \in 1..n |-> FracGe(row[i], threshold)])

(***************************************************************************)
(* main, lines 589-859: the weekly average pattern.                        *)
(***************************************************************************)
\* a slip: the dates of the day are counted with their reservations
NumDatesForDayAll(rdata, day) ==
    Len(SelectSeq(rdata, LAMBDA item : item.day_of_week = day))

\* line 629: the distinct date labels of the day among the reservations kept
NumDatesForDay(rdata, day) ==
    Cardinality({rdata[k].date : k \in {x \in 1..Len(rdata) : rdata[x].day_of_week = day}})

\* lines 595-609: the hits of the day's reservations on each slot
DayHits(of_day, slots) ==
    List([i \in 1..Len(slots) |-> Hits(of_day, slots[i].minutes)])

\* lines 628-631 and 636: the hits over the dates of the day, 0 where there is none
DayAverages(hits, num_dates_for_day) ==
    List([i \in 1..Len(hits) |->
            IF hits[i] > 0
            THEN (IF num_dates_for_day > 0 THEN Frac(hits[i], num_dates_for_day)
                  ELSE <<0, 1>>)
            ELSE <<0, 1>>])

\* lines 633 and 655: a value as a percentage of the cap, 0 when the cap is not positive
Utilization(value, location_cap) ==
    IF location_cap > 0 THEN FracMul(FracDiv(value, location_cap), 100) ELSE <<0, 1>>

\* lines 639 and 663: the mean of the values, 0 when there is none
Mean(values) ==
    IF Len(values) > 0 THEN FracDiv(FracSum(values), Len(values)) ELSE <<0, 1>>

\* lines 633-642: the row, two blank columns and the utilisation of the day
WithDayUtil(row, location_cap) ==
    row \o <<<<0, 1>>, <<0, 1>>,
             Mean(List([i \in 1..Len(row) |-> Utilization(row[i], location_cap)]))>>

\* lines 595-609 and 622-645: the row of one day
WeeklyDayRow(day, slots, rdata, location_cap) ==
    WithDayUtil(
        DayAverages(
            DayHits(OriginalMinutes(SelectSeq(rdata, LAMBDA item : item.day_of_week = day)),
                    slots),
            NumDatesForDay(rdata, day)),
        location_cap)

\* lines 658-664: two blank columns and the overall utilisation
WithOverallUtil(util) == util \o <<<<0, 1>>, <<0, 1>>, Mean(util)>>

\* lines 648-664: the utilisation of each slot over the 7 days, and the overall one
TimeUtilRow(day_rows, count_slots, location_cap) ==
    WithOverallUtil(
        List([i \in 1..count_slots |->
                Utilization(FracDiv(FracSum(List([j \in 1..Len(day_rows) |-> day_rows[j][i]])),
                                    Len(day_order)),
                            location_cap)]))

\* line 667: the Util. Rate row comes last
WithUtilRow(day_rows, count_slots, location_cap) ==
    day_rows \o <<TimeUtilRow(day_rows, count_slots, location_cap)>>

\* lines 616-668: z_data_weekly
WeeklyRows(slots, rdata, location_cap) ==
    WithUtilRow(List([j \in 1..Len(day_order) |->
                        WeeklyDayRow(day_order[j], slots, rdata, location_cap)]),
                Len(slots), location_cap)

\* a slip: the weekly rows are scanned with the raw cap
WeeklyCapThresholdRaw(location_cap) == location_cap

\* line 834: max(1, location_cap - 1)
WeeklyCapThreshold(location_cap) ==
    IF location_cap - 1 > 1 THEN location_cap - 1 ELSE 1

\* lines 836-859: the runs of the 7 day rows, the Util. Rate row left out
WeeklyRuns(rows, n, threshold) ==
    List([j \in 1..(Len(rows) - 1) |-> RunScan(GeFrac(rows[j], n, threshold))])

\* lines 592-859: the rows, then the runs of the 7 day rows
WeeklyPatternWith(location_cap) ==
    /\ pc = "weekly"
    /\ z_data_weekly' = WeeklyRows(time_slots, reservation_data, location_cap)
    /\ weekly_runs' = WeeklyRuns(z_data_weekly', Len(time_slots),
                                 WeeklyCapThreshold(location_cap))
    /\ pc' = "daily"
    /\ UNCHANGED <<data, selected_location, location_filtered_data, start_hour, end_hour,
                   selected_location_date, time_slots, reservation_data, info,
                   z_data_summary, y_labels_summary, summary_runs>>
    /\ UNCHANGED <<timeVars, scanVars, utilVars>>

\* line 619: the cap is the cap of the selected location
WeeklyPattern == WeeklyPatternWith(get_location_cap(selected_location))

\* lines 616-668 with LOCATION_CAPS giving the selected location the cap util_cap
WeeklyPatternAtCap == WeeklyPatternWith(util_cap)

(***************************************************************************)
(* create_heatmap (lines 259-457) and its call (lines 933-940).            *)
(***************************************************************************)
RECURSIVE DistinctInOrder(_)
\* the keys of a dict filled in this order
DistinctInOrder(xs) ==
    IF xs = <<>> THEN <<>>
    ELSE LET rest == DistinctInOrder(SubSeq(xs, 1, Len(xs) - 1))
             x == xs[Len(xs)]
         IN  IF \E i \in 1..Len(rest) : rest[i] = x THEN rest ELSE Append(rest, x)

RECURSIVE SortedByDate(_, _)
\* sorted(keys, key = ...): stable, ascending; key is a function from the keys to datetimes
SortedByDate(keys, key) ==
    IF keys = <<>> THEN <<>>
    ELSE LET rest == SortedByDate(SubSeq(keys, 1, Len(keys) - 1), key)
             x == keys[Len(keys)]
             p == Cardinality({i \in 1..Len(rest) : DatetimeLe(key[rest[i]], key[x])})
         IN  SubSeq(rest, 1, p) \o <<x>> \o SubSeq(rest, p + 1, Len(rest))

Reversed(xs) == List([i \in 1..Len(xs) |-> xs[Len(xs) + 1 - i]])

\* a slip: the sum is left undivided
SumUndivided(n, d) == n

\* a slip: halves are rounded up
RoundHalfUp(n, d) == (2 * n + d) \div (2 * d)

\* round(n / d) for n >= 0, d > 0: to the nearest integer, a half to the even one
Round(n, d) ==
    LET q == n \div d
        r == n % d
    IN  IF 2 * r < d THEN q
        ELSE IF 2 * r > d THEN q + 1
        ELSE IF q % 2 = 0 THEN q ELSE q + 1

\* a slip: only the first reservation of a group is counted
GroupRowFirstOnly(items, slots) ==
    DayHits(OriginalMinutes(SubSeq(items, 1, 1)), slots)

\* lines 285-294: the row of one group
GroupRow(items, slots) == DayHits(OriginalMinutes(items), slots)

\* the items of one location-date, in their order
Group(rdata, ld) == SelectSeq(rdata, LAMBDA item : item.location_date = ld)

\* lines 265-273: the location-dates, ascending by the full date of their first item
SortedLocationDates(rdata) ==
    SortedByDate(DistinctInOrder(List([i \in 1..Len(rdata) |-> rdata[i].location_date])),
                 [ld \in {rdata[i].location_date : i \in 1..Len(rdata)} |->
                     extract_full_date(Group(rdata, ld)[1].datetime)])

\* lines 279, 296-297 and 302-303: the sum over the rows at each slot, rounded over their number
AverageRow(rows, n) ==
    IF Len(rows) > 0
    THEN List([i \in 1..n |->
                 Round(SumSeq(List([j \in 1..Len(rows) |-> rows[j][i]])), Len(rows))])
    ELSE List([i \in 1..n |-> 0])

\* lines 299 and 305: the average row comes last
WithAverageRow(rows, n) == rows \o <<AverageRow(rows, n)>>

\* lines 300 and 306
Labels(shown, rdata) ==
    List([j \in 1..Len(shown) |->
            [kind |-> "date", location_date |-> shown[j],
             day_of_week |-> Group(rdata, shown[j])[1].day_of_week, num_dates |-> 0]])
    \o <<[kind |-> "average", location_date |-> <<>>, day_of_week |-> "",
          num_dates |-> Len(shown)]>>

\* lines 370-389: the runs of every row, the average row included
Heatmap(z, labels, location_cap) ==
    [z_data_summary |-> z, y_labels_summary |-> labels,
     runs |-> List([j \in 1..Len(z) |-> RunScan(GeInt(z[j], location_cap))])]

\* lines 281-306: the groups latest first
HeatmapOf(shown, slots, rdata, location_cap) ==
    Heatmap(WithAverageRow(List([j \in 1..Len(shown) |->
                                   GroupRow(Group(rdata, shown[j]), slots)]),
                           Len(slots)),
            Labels(shown, rdata), location_cap)

create_heatmap(slots, rdata, sel, loc) ==
    HeatmapOf(Reversed(SortedLocationDates(rdata)), slots, rdata,
              IF loc # "" THEN get_location_cap(loc) ELSE get_location_cap("default"))

\* the figure's rows, labels and rectangles are shown
ShowHeatmap(r) ==
    /\ z_data_summary' = r.z_data_summary
    /\ y_labels_summary' = r.y_labels_summary
    /\ summary_runs' = r.runs

\* lines 933-940: the heatmap when there is a reservation to show, a message otherwise
DailyPattern ==
    /\ pc = "daily"
    /\ IF reservation_data # <<>>
       THEN ShowHeatmap(create_heatmap(time_slots, reservation_data,
                            IF selected_location_date = AllDates THEN None
                            ELSE selected_location_date,
                            selected_location))
       ELSE UNCHANGED <<z_data_summary, y_labels_summary, summary_runs>>
    /\ pc' = "done"
    /\ UNCHANGED <<data, selected_location, location_filtered_data, start_hour, end_hour,
                   selected_location_date, time_slots, reservation_data, info,
                   z_data_weekly, weekly_runs>>
    /\ UNCHANGED <<timeVars, scanVars, utilVars>>

(***************************************************************************)
(* The functions checked on their own.                                     *)
(***************************************************************************)
\* minutes_to_time applied to t_minutes
FormatMinutes ==
    /\ pc = "format"
    /\ t_string' = minutes_to_time(t_minutes)
    /\ pc' = "parse"
    /\ UNCHANGED <<t_minutes, t_result, mainVars, scanVars, utilVars>>

\* time_to_minutes applied to the string
ParseTime ==
    /\ pc = "parse"
    /\ t_result' = time_to_minutes(t_string)
    /\ pc' = "done"
    /\ UNCHANGED <<t_minutes, t_string, mainVars, scanVars, utilVars>>

\* the scan of lines 370-389 applied to scan_row at scan_threshold
Scan ==
    /\ pc = "scan"
    /\ scan_runs' = RunScan(GeInt(scan_row, scan_threshold))
    /\ pc' = "rescan"
    /\ UNCHANGED <<scan_row, scan_threshold, scan_again, mainVars, timeVars, utilVars>>

\* the same row scanned once more
Rescan ==
    /\ pc = "rescan"
    /\ scan_again' = RunScan(GeInt(scan_row, scan_threshold))
    /\ pc' = "done"
    /\ UNCHANGED <<scan_row, scan_threshold, scan_runs, mainVars, timeVars, utilVars>>

(***************************************************************************)
(* Inputs.                                                                 *)
(***************************************************************************)
\* 9/28/25 and 10/5/25 are Sundays, 9/29/25 is a Monday, and 9/28/2031 is a Sunday
\* again; "9/28/25 9:30" lacks its marker and September has no 31st day
MainDateTimes ==
    { DT(9, 28, 25, 2, 9, 30, "AM"),
      DT(9, 28, 25, 2, 9, 45, "AM"),
      DT(9, 29, 25, 2, 9, 30, "AM"),
      DT(10, 5, 25, 2, 9, 30, "AM"),
      DT(9, 28, 2031, 4, 9, 30, "AM"),
      DT(9, 28, 25, 2, 9, 30, ""),
      DT(9, 31, 25, 2, 9, 30, "AM") }

MainRaw ==
    {[location |-> "San Francisco", datetime |-> d] : d \in MainDateTimes}
    \cup {[location |-> "Boston", datetime |-> DT(9, 28, 25, 2, 9, 30, "AM")]}

\* the hours selected in a run: two windows and one that is no window
MainHours == {<<8, 10>>, <<9, 10>>, <<10, 9>>}

\* every pair the two select boxes offer: range(0, 24) x range(1, 25)
AllHours == (0..23) \X (1..24)

GridRaw ==
    {[location |-> "San Francisco", datetime |-> d] :
        d \in {DT(9, 28, 25, 2, 9, 30, "AM"), DT(9, 28, 25, 2, 9, 45, "AM"),
               DT(9, 28, 25, 2, 9, 30, ""), DT(9, 29, 25, 2, 11, 0, "PM")}}

\* the largest number of records when every window is tried
GridRecords == 2

\* the record lists of at most n records drawn from raw, the id being the position
Inputs(raw, n) ==
    UNION {{[i \in 1..k |-> [location |-> f[i].location, id |-> i,
                             datetime |-> f[i].datetime]] : f \in [1..k -> raw]} :
           k \in 0..n}

\* nothing selected or computed yet
MainIdle ==
    /\ selected_location = ""
    /\ location_filtered_data = <<>>
    /\ start_hour = 0
    /\ end_hour = 0
    /\ selected_location_date = None
    /\ time_slots = <<>>
    /\ reservation_data = <<>>
    /\ info = [error |-> ""]
    /\ z_data_weekly = <<>>
    /\ weekly_runs = <<>>
    /\ z_data_summary = <<>>
    /\ y_labels_summary = <<>>
    /\ summary_runs = <<>>

TimeIdle ==
    /\ t_minutes = 0
    /\ t_string = <<>>
    /\ t_result = 0

ScanIdle ==
    /\ scan_row = <<>>
    /\ scan_threshold = 1
    /\ scan_runs = <<>>
    /\ scan_again = <<>>

\* the caps are those of LOCATION_CAPS
UtilIdle == util_cap = get_location_cap("default")

(***************************************************************************)
(* Specifications.                                                         *)
(***************************************************************************)
\* a run of main() on at most MaxRecords records
Init ==
    /\ pc = "process"
    /\ data \in Inputs(MainRaw, MaxRecords)
    /\ MainIdle
    /\ TimeIdle
    /\ ScanIdle
    /\ UtilIdle

Next ==
    \/ ProcessData
    \/ SelectLocation
    \/ SelectHours(MainHours)
    \/ SelectDate
    \/ CalculateTimeSlots
    \/ ShowInfo
    \/ WeeklyPattern
    \/ DailyPattern

Spec == Init /\ [][Next]_vars

\* a run of main() up to its report of the hidden count, with every operating-hours window
InitGrid ==
    /\ pc = "process"
    /\ data \in Inputs(GridRaw, GridRecords)
    /\ MainIdle
    /\ TimeIdle
    /\ ScanIdle
    /\ UtilIdle

NextGrid ==
    \/ ProcessData
    \/ SelectLocation
    \/ SelectHours(AllHours)
    \/ SelectDate
    \/ CalculateTimeSlots
    \/ ShowInfo

SpecGrid == InitGrid /\ [][NextGrid]_vars

\* minutes_to_time and then time_to_minutes, on every minute of a day
InitTime ==
    /\ pc = "format"
    /\ t_minutes \in 0..(24 * 60 - 1)
    /\ t_string = <<>>
    /\ t_result = 0
    /\ data = <<>>
    /\ MainIdle
    /\ ScanIdle
    /\ UtilIdle

NextTime == FormatMinutes \/ ParseTime

SpecTime == InitTime /\ [][NextTime]_vars

\* the run scan on every row of at most MaxRowLen values
InitRuns ==
    /\ pc = "scan"
    /\ scan_row \in UNION {[1..k -> 0..MaxRowVal] : k \in 0..MaxRowLen}
    /\ scan_threshold \in 1..MaxThreshold
    /\ scan_runs = <<>>
    /\ scan_again = <<>>
    /\ data = <<>>
    /\ MainIdle
    /\ TimeIdle
    /\ UtilIdle

NextRuns == Scan \/ Rescan

SpecRuns == InitRuns /\ [][NextRuns]_vars

\* times at the edges of a window: ten minutes after midnight, a datetime without its
\* marker (time 00:00), 25 minutes after ten, and a quarter to ten on the next day
EdgeRaw ==
    {[location |-> "San Francisco", datetime |-> d] :
        d \in {DT(9, 28, 25, 2, 12, 10, "AM"), DT(9, 28, 25, 2, 9, 30, ""),
               DT(9, 28, 25, 2, 10, 25, "AM"), DT(9, 29, 25, 2, 9, 45, "AM")}}

\* the first hour of the day, one hour of the morning, and two windows that are none
EdgeHours == {<<0, 1>>, <<9, 10>>, <<10, 10>>, <<10, 9>>}

\* a run of main() on records at the edges of the window, or a call of
\* calculate_time_slots on the records of the location with the hours as given
InitEdge ==
    /\ pc = "process"
    /\ data \in Inputs(EdgeRaw, EdgeRecords)
    /\ MainIdle
    /\ TimeIdle
    /\ ScanIdle
    /\ UtilIdle

NextEdge ==
    \/ ProcessData
    \/ SelectLocation
    \/ SelectHours(EdgeHours)
    \/ DirectCall(EdgeHours)
    \/ SelectDate
    \/ CalculateTimeSlots
    \/ ShowInfo
    \/ WeeklyPattern
    \/ DailyPattern

SpecEdge == InitEdge /\ [][NextEdge]_vars

\* the hours of the runs at a configured cap
UtilHours == {<<9, 10>>}

\* a run of main() up to the weekly rows, the selected location having any cap from 0 up
InitUtil ==
    /\ pc = "process"
    /\ data \in Inputs(MainRaw, UtilRecords)
    /\ util_cap \in 0..MaxCap
    /\ MainIdle
    /\ TimeIdle
    /\ ScanIdle

NextUtil ==
    \/ ProcessData
    \/ SelectLocation
    \/ SelectHours(UtilHours)
    \/ SelectDate
    \/ CalculateTimeSlots
    \/ ShowInfo
    \/ WeeklyPatternAtCap

SpecUtil == InitUtil /\ [][NextUtil]_vars

(***************************************************************************)
(* Properties.                                                             *)
(***************************************************************************)
\* the slots have been counted
Counted == pc = "info" \/ "cap" \in DOMAIN info

\* the counts have been reported
Reported == "cap" \in DOMAIN info

\* the weekly rows and their runs have been built
WeeklyShown == pc \in {"daily", "done"} /\ Reported

\* the date-level heatmap has been built
HeatmapShown == pc = "done" /\ z_data_summary # <<>>

\* the time of day of a record in minutes, 0 when its datetime does not parse
TimeOfDay(item) ==
    LET dt == parse_datetime(item.datetime)
    IN  dt.hour * 60 + dt.minute

\* the minute m lies in the buffer [t-30, t+30)
InBuffer(t, m) == t - 30 <= m /\ m < t + 30

\* the zero-padded "HH:MM" of the minute m
Clock(m) ==
    <<Digits[((m \div 60) \div 10) + 1], Digits[((m \div 60) % 10) + 1], ":",
      Digits[((m % 60) \div 10) + 1], Digits[((m % 60) % 10) + 1]>>

Abs(x) == IF x < 0 THEN 0 - x ELSE x

\* the record is one of those kept by calculate_time_slots
Kept(r) == \E n \in 1..Len(reservation_data) : reservation_data[n].id = r.id

\* the record matches the selected date
DateMatches(r) == selected_location_date = AllDates \/ r.location_date = selected_location_date

\* C1: a slot counts a record of the selected location exactly once when the record is
\* kept and the slot's start minute m satisfies t-30 <= m < t+30, and never otherwise;
\* a record of the selected date whose buffer holds a slot is kept; with hours 8-18 a
\* single reservation at 09:30 gives count 1 on exactly the slots 09:00..09:50 of 60.
C1_BufferAttribution ==
    Counted =>
        /\ \A k \in 1..Len(time_slots) :
              /\ time_slots[k].count = Len(time_slots[k].reservations)
              /\ \A n \in 1..Len(time_slots[k].reservations) :
                    \E j \in 1..Len(location_filtered_data) :
                        location_filtered_data[j].id = time_slots[k].reservations[n]
              /\ \A j \in 1..Len(location_filtered_data) :
                    LET r == location_filtered_data[j]
                        covered == InBuffer(TimeOfDay(r), time_slots[k].minutes)
                    IN  /\ Cardinality({n \in 1..Len(time_slots[k].reservations) :
                                            time_slots[k].reservations[n] = r.id})
                           = IF Kept(r) /\ covered THEN 1 ELSE 0
                        /\ (DateMatches(r) /\ covered) => Kept(r)
        /\ ( /\ start_hour = 8
             /\ end_hour = 18
             /\ Len(reservation_data) = 1
             /\ TimeOfDay(reservation_data[1]) = 9 * 60 + 30 )
           => /\ Len(time_slots) = 60
              /\ \A k \in 1..Len(time_slots) :
                    time_slots[k].count
                    = IF time_slots[k].time \in {Clock(9 * 60 + 10 * x) : x \in 0..5}
                      THEN 1 ELSE 0

\* hours 8-18 and a single reservation at 09:30: six slots counted, 08:50 and 10:00 not
C1_Witness ==
    /\ pc = "info"
    /\ start_hour = 8
    /\ end_hour = 18
    /\ Len(location_filtered_data) = 1
    /\ Len(reservation_data) = 1
    /\ TimeOfDay(reservation_data[1]) = 570
    /\ time_slots[6].count = 0
    /\ time_slots[7].count = 1
    /\ time_slots[7].reservations = <<reservation_data[1].id>>
    /\ time_slots[12].count = 1
    /\ time_slots[13].count = 0

\* the records of the selected location and date
Matching == SelectSeq(location_filtered_data, DateMatches)

\* the in-range test: t+30 > start_hour*60 and t-30 < end_hour*60
PassesTest(item) ==
    /\ TimeOfDay(item) + 30 > start_hour * 60
    /\ TimeOfDay(item) - 30 < end_hour * 60

FailsTest(item) == ~PassesTest(item)

\* the hidden number of the report, 0 when the report has none
HiddenNumber == IF info.hidden = <<>> THEN 0 ELSE info.hidden[1]

\* C2: the records kept are the records of the selected location and date that pass the
\* in-range test, a record failing it is in no slot, and the hidden number reported is
\* the number of records of the selected location and date that fail it.
C2_HiddenCount ==
    Reported =>
        /\ reservation_data = SelectSeq(Matching, PassesTest)
        /\ \A j \in 1..Len(location_filtered_data) :
              FailsTest(location_filtered_data[j]) =>
                  \A k \in 1..Len(time_slots) :
                      \A n \in 1..Len(time_slots[k].reservations) :
                          time_slots[k].reservations[n] # location_filtered_data[j].id
        /\ HiddenNumber = Len(SelectSeq(Matching, FailsTest))

\* a run <<start_i, end_i>> holds the 0-based index i
InRun(run, i) == run[1] <= i /\ i < run[2]

\* C3: the runs emitted for a row and a threshold are non-empty half-open ranges of
\* indices inside the row, holding only slots at or above the threshold; every slot at or
\* above the threshold lies in exactly one run; consecutive runs are separated by at least
\* one slot, so no two overlap or touch; a second scan of the row emits the same runs; and
\* the row [0,1,2,2,2,1,0] at threshold 2 yields exactly the run [2,5).
C3_RunScan ==
    pc \in {"rescan", "done"} =>
        /\ \A n \in 1..Len(scan_runs) :
              /\ 0 <= scan_runs[n][1]
              /\ scan_runs[n][1] < scan_runs[n][2]
              /\ scan_runs[n][2] <= Len(scan_row)
              /\ \A i \in scan_runs[n][1]..(scan_runs[n][2] - 1) :
                    scan_row[i + 1] >= scan_threshold
        /\ \A i \in 0..(Len(scan_row) - 1) :
              scan_row[i + 1] >= scan_threshold =>
                  Cardinality({n \in 1..Len(scan_runs) : InRun(scan_runs[n], i)}) = 1
        /\ \A a, b \in 1..Len(scan_runs) : a < b => scan_runs[a][2] < scan_runs[b][1]
        /\ (pc = "done" => scan_again = scan_runs)
        /\ (scan_row = <<0, 1, 2, 2, 2, 1, 0>> /\ scan_threshold = 2)
           => scan_runs = <<<<2, 5>>>>

\* the row [0,1,2,2,2,1,0] scanned twice at threshold 2
C3_Witness ==
    /\ pc = "done"
    /\ scan_row = <<0, 1, 2, 2, 2, 1, 0>>
    /\ scan_threshold = 2
    /\ scan_runs = <<<<2, 5>>>>
    /\ scan_again = <<<<2, 5>>>>

\* the number of the date rows of the heatmap, the average row being the last row
DateRows == Len(z_data_summary) - 1

\* the sum of the date rows at the slot i
ColumnSum(i) == SumSeq(List([j \in 1..DateRows |-> z_data_summary[j][i]]))

\* the average row at the slot i
AverageAt(i) == z_data_summary[DateRows + 1][i]

\* the kept reservations of a location-date whose buffer holds the minute m
GroupHits(ld, m) ==
    Cardinality({n \in 1..Len(reservation_data) :
                    /\ reservation_data[n].location_date = ld
                    /\ InBuffer(TimeOfDay(reservation_data[n]), m)})

\* C4: the heatmap has one row for each location-date of the kept reservations, holding
\* at each slot the number of the group's reservations whose buffer holds the slot, and
\* its average row holds at each slot an integer that differs from (the sum of the group
\* rows at the slot) / (the number of groups) by at most 1/2; with 0 groups the average
\* row is all zeros, one entry for each slot.
C4_AverageRow ==
    /\ HeatmapShown =>
          /\ DateRows = Cardinality({reservation_data[n].location_date :
                                        n \in 1..Len(reservation_data)})
          /\ \A j \in 1..DateRows :
                /\ \E n \in 1..Len(reservation_data) :
                      reservation_data[n].location_date = y_labels_summary[j].location_date
                /\ \A k \in 1..DateRows :
                      y_labels_summary[j].location_date = y_labels_summary[k].location_date
                      => j = k
                /\ Len(z_data_summary[j]) = Len(time_slots)
                /\ \A i \in 1..Len(time_slots) :
                      z_data_summary[j][i]
                      = GroupHits(y_labels_summary[j].location_date, time_slots[i].minutes)
          /\ Len(z_data_summary[DateRows + 1]) = Len(time_slots)
          /\ \A i \in 1..Len(time_slots) :
                /\ AverageAt(i) \in Nat
                /\ 2 * Abs(AverageAt(i) * DateRows - ColumnSum(i)) <= DateRows
    /\ (pc = "done" /\ Reported) =>
          create_heatmap(time_slots, <<>>, None, selected_location).z_data_summary
          = <<List([i \in 1..Len(time_slots) |-> 0])>>

\* three groups, a slot where the sum is 2 and the mean 2/3 is shown as 1, and a slot
\* where the sum is 3 and the mean is shown as 1
C4_Witness ==
    /\ HeatmapShown
    /\ DateRows = 3
    /\ \E i \in 1..Len(time_slots) : ColumnSum(i) = 2 /\ AverageAt(i) = 1
    /\ \E i \in 1..Len(time_slots) : ColumnSum(i) = 3 /\ AverageAt(i) = 1

\* the mean at the slot i lies exactly halfway between two integers
Halfway(i) ==
    /\ (2 * ColumnSum(i)) % DateRows = 0
    /\ ((2 * ColumnSum(i)) \div DateRows) % 2 = 1

\* C5: when the mean of the group rows at a slot lies exactly halfway between two
\* integers, the average row holds the even one of the two: 0.5 -> 0, 1.5 -> 2.
C5_HalfToEven ==
    HeatmapShown =>
        \A i \in 1..Len(time_slots) :
            Halfway(i) =>
                /\ AverageAt(i) % 2 = 0
                /\ 2 * Abs(AverageAt(i) * DateRows - ColumnSum(i)) = DateRows

\* C5 as stated: a mean exactly halfway is rounded up to the larger integer
\* (0.5 -> 1, 2.5 -> 3).
C5_HalfAwayFromZero ==
    HeatmapShown =>
        \A i \in 1..Len(time_slots) :
            Halfway(i) => 2 * AverageAt(i) * DateRows = 2 * ColumnSum(i) + DateRows

\* two groups, a slot with the sum 3 shown as 2 and a slot with the sum 1 shown as 0
C5_Witness ==
    /\ HeatmapShown
    /\ DateRows = 2
    /\ \E i \in 1..Len(time_slots) : Halfway(i) /\ ColumnSum(i) = 3 /\ AverageAt(i) = 2
    /\ \E i \in 1..Len(time_slots) : Halfway(i) /\ ColumnSum(i) = 1 /\ AverageAt(i) = 0

\* C6: for every minute m of a day, 0 <= m < 1440, minutes_to_time gives the zero-padded
\* "HH:MM" of m // 60 and m % 60, and time_to_minutes gives m back from it.
C6_RoundTrip ==
    (pc = "parse" \/ (pc = "done" /\ t_string # <<>>)) =>
        /\ t_minutes \in 0..(24 * 60 - 1)
        /\ Len(t_string) = 5
        /\ t_string = Clock(t_minutes)
        /\ (pc = "done" => t_result = t_minutes)

\* the last minute of the day, 23:59, and back
C6_Witness ==
    /\ pc = "done"
    /\ t_minutes = 1439
    /\ t_string = <<"2", "3", ":", "5", "9">>
    /\ t_result = 1439

\* C7: for every 0 <= start_hour < end_hour <= 24 the grid has (end_hour - start_hour) * 6
\* slots, the k-th (0-based) starting at minute start_hour*60 + 10*k and labelled with
\* that minute, strictly ascending, all in [start_hour*60, end_hour*60); every slot is so
\* fixed by the two hours alone, whatever the reservations.
C7_SlotGrid ==
    (Counted /\ 0 <= start_hour /\ start_hour < end_hour /\ end_hour <= 24) =>
        /\ Len(time_slots) = (end_hour - start_hour) * 6
        /\ \A k \in 1..Len(time_slots) :
              /\ time_slots[k].minutes = start_hour * 60 + 10 * (k - 1)
              /\ time_slots[k].time = Clock(start_hour * 60 + 10 * (k - 1))
              /\ start_hour * 60 <= time_slots[k].minutes
              /\ time_slots[k].minutes < end_hour * 60
        /\ \A k \in 1..(Len(time_slots) - 1) :
              time_slots[k].minutes < time_slots[k + 1].minutes

\* the whole day, 0-24, with a reservation counted: 144 slots, the last at 23:50
C7_Witness ==
    /\ pc = "info"
    /\ start_hour = 0
    /\ end_hour = 24
    /\ Len(time_slots) = 144
    /\ time_slots[1].minutes = 0
    /\ time_slots[144].minutes = 1430
    /\ time_slots[144].time = <<"2", "3", ":", "5", "0">>
    /\ \E k \in 1..144 : time_slots[k].count > 0

\* the kept reservations of a day of the week
KeptOfDay(day) == SelectSeq(reservation_data, LAMBDA item : item.day_of_week = day)

\* the number of the reservations among items whose buffer holds the minute m
BufferHits(items, m) ==
    Cardinality({n \in 1..Len(items) : InBuffer(TimeOfDay(items[n]), m)})

\* the month/day labels of the items, the year dropped
DateLabels(items) == {items[n].date : n \in 1..Len(items)}

\* the calendar dates of the items: year, month and day
CalendarDates(items) ==
    {<<parse_datetime(items[n].datetime).year, parse_datetime(items[n].datetime).month,
       parse_datetime(items[n].datetime).day>> : n \in 1..Len(items)}

\* the weekly rows are the 7 rows of Mo..Su in this order and the Util. Rate row, and the
\* row of each day holds at each slot the hits of the day's kept reservations divided by
\* dates[j], 0 where there is no hit
WeeklyRowsOver(dates) ==
    /\ Len(z_data_weekly) = 8
    /\ day_order = <<"Mo", "Tu", "We", "Th", "Fr", "Sa", "Su">>
    /\ \A j \in 1..7 :
          /\ Len(z_data_weekly[j]) = Len(time_slots) + 3
          /\ \A i \in 1..Len(time_slots) :
                LET hits == BufferHits(KeptOfDay(day_order[j]), time_slots[i].minutes)
                    value == z_data_weekly[j][i]
                IN  /\ value[2] > 0
                    /\ value[1] * dates[j] = hits * value[2]
          /\ KeptOfDay(day_order[j]) = <<>> =>
                \A i \in 1..Len(time_slots) : z_data_weekly[j][i] = <<0, 1>>

\* C8: the weekly rows are the rows of Mo,Tu,We,Th,Fr,Sa,Su in this order; the row of a
\* day d holds at each slot (the number of kept reservations of d whose buffer
\* [t-30,t+30) holds the slot) divided by (the number of distinct month/day labels among
\* the kept reservations of d), two dates of different years with one label counting
\* once; a day with no reservation has an all-zero row.
C8_WeeklyRowsByLabel ==
    WeeklyShown =>
        WeeklyRowsOver([j \in 1..7 |->
            IF KeptOfDay(day_order[j]) = <<>> THEN 1
            ELSE Cardinality(DateLabels(KeptOfDay(day_order[j])))])

\* C8 as stated: the divisor is the number of distinct calendar dates of the day
C8_WeeklyRowsByCalendarDate ==
    WeeklyShown =>
        WeeklyRowsOver([j \in 1..7 |->
            IF KeptOfDay(day_order[j]) = <<>> THEN 1
            ELSE Cardinality(CalendarDates(KeptOfDay(day_order[j])))])

\* Sunday reservations under two labels with a slot hit once, shown as 1/2, a Monday
\* reservation, and Tuesday without any
C8_Witness ==
    /\ WeeklyShown
    /\ Cardinality(DateLabels(KeptOfDay("Su"))) = 2
    /\ \E i \in 1..Len(time_slots) :
          /\ BufferHits(KeptOfDay("Su"), time_slots[i].minutes) = 1
          /\ z_data_weekly[7][i] = <<1, 2>>
    /\ \E i \in 1..Len(time_slots) : z_data_weekly[1][i] = <<1, 1>>
    /\ \A i \in 1..Len(time_slots) : z_data_weekly[2][i] = <<0, 1>>

\* some run of runs holds the 0-based index i
InSomeRun(runs, i) == \E n \in 1..Len(runs) : InRun(runs[n], i)

\* C9: with c the cap of the selected location, a slot of a weekly day row lies in a run
\* of that row exactly when its value is at least max(1, c-1), and a slot of a date row or
\* of the average row lies in a run of that row exactly when its value is at least c; so
\* for c >= 2 a value v with c-1 <= v < c is inside a weekly run and outside every date
\* run; for a cap of 1 the weekly threshold is 1 as well.
C9_WeeklyThreshold ==
    /\ (pc = "done" /\ Reported) =>
          LET c == get_location_cap(selected_location)
              weekly == IF c - 1 > 1 THEN c - 1 ELSE 1
          IN  /\ Len(weekly_runs) = 7
              /\ \A j \in 1..7 : \A i \in 1..Len(time_slots) :
                    InSomeRun(weekly_runs[j], i - 1)
                    <=> z_data_weekly[j][i][1] >= weekly * z_data_weekly[j][i][2]
              /\ Len(summary_runs) = Len(z_data_summary)
              /\ \A j \in 1..Len(z_data_summary) : \A i \in 1..Len(time_slots) :
                    InSomeRun(summary_runs[j], i - 1) <=> z_data_summary[j][i] >= c
    /\ WeeklyCapThreshold(1) = 1

\* cap 2: the value 1 is inside a weekly run and, in a date row, outside every run
C9_Witness ==
    /\ pc = "done"
    /\ Reported
    /\ get_location_cap(selected_location) = 2
    /\ \E j \in 1..7 : \E i \in 1..Len(time_slots) :
          z_data_weekly[j][i] = <<1, 1>> /\ InSomeRun(weekly_runs[j], i - 1)
    /\ \E j \in 1..DateRows : \E i \in 1..Len(time_slots) :
          z_data_summary[j][i] = 1 /\ ~InSomeRun(summary_runs[j], i - 1)

\* the datetime parses under neither format
Unparseable(s) == ~StrptimeOk(s, 2) /\ ~StrptimeOk(s, 4)

\* C10: once the data is processed every record is still at its place, and a record
\* whose datetime parses under neither format has the time "00:00" (minute 0), the date
\* "" and the day of the week ""; it is among the records of its location when that
\* location is selected.
C10_NormalizationTotal ==
    pc # "process" =>
        /\ \A i \in 1..Len(data) :
              /\ data[i].id = i
              /\ Unparseable(data[i].datetime) =>
                    /\ data[i].time = <<"0", "0", ":", "0", "0">>
                    /\ time_to_minutes(data[i].time) = 0
                    /\ data[i].date = <<>>
                    /\ data[i].location_date = <<>>
                    /\ data[i].day_of_week = ""
        /\ pc # "select_location" =>
              \A i \in 1..Len(data) :
                  (Unparseable(data[i].datetime) /\ data[i].location = selected_location)
                  => \E j \in 1..Len(location_filtered_data) :
                        location_filtered_data[j] = data[i]

\* three records kept, one without its AM/PM marker and one on a day that does not exist
C10_Witness ==
    /\ pc = "done"
    /\ Reported
    /\ Len(data) = 3
    /\ Len(location_filtered_data) = 3
    /\ \E i, j \in 1..3 :
          /\ data[i].datetime.ampm = ""
          /\ data[i].time = <<"0", "0", ":", "0", "0">>
          /\ data[i].day_of_week = ""
          /\ data[j].datetime.day = 31
          /\ data[j].date = <<>>

\* the number of the records whose datetime parses under neither format
UnparseableCount ==
    Cardinality({i \in 1..Len(data) : Unparseable(data[i].datetime)})

\* C11: once data with an unparseable record is processed and reported, the report
\* carries a degenerate-record count that equals the number of the records whose
\* datetime failed to parse, and such
\* a record differs in its normalised fields from every record that parsed.
C11_DegenerateCount ==
    (Reported /\ UnparseableCount > 0) =>
        /\ "degenerate" \in DOMAIN info
        /\ info.degenerate = UnparseableCount
        /\ \A i, j \in 1..Len(data) :
              (Unparseable(data[i].datetime) /\ ~Unparseable(data[j].datetime))
              => <<data[i].time, data[i].date, data[i].day_of_week>>
                 # <<data[j].time, data[j].date, data[j].day_of_week>>

\* an error has been reported
ErrorReported == "error" \in DOMAIN info /\ info.error # ""

\* the weekly rows have been built with the selected location's cap set to util_cap
UtilizationAtCap == pc = "daily" /\ z_data_weekly # <<>>

HoursError == "End hour must be later than start hour."

TwoOverlapping ==
    /\ Counted
    /\ start_hour = 8
    /\ end_hour = 18
    /\ Len(reservation_data) = 2
    /\ {TimeOfDay(reservation_data[1]), TimeOfDay(reservation_data[2])}
       = {9 * 60 + 30, 9 * 60 + 45}
    /\ reservation_data[1].location_date = reservation_data[2].location_date
    /\ reservation_data[1].location = reservation_data[2].location

\* C14: with hours 8-18 and two reservations at 09:30 and 09:45 of one date and location,
\* every slot's count is the number of the buffers [t-30,t+30) that hold its start
\* minute, and the slots with count 2 are 09:20, 09:30, 09:40 and 09:50, the slot starts
\* in [09:15,10:00).
C14_OverlapFourSlots ==
    TwoOverlapping =>
        \A k \in 1..Len(time_slots) :
            /\ time_slots[k].count = BufferHits(reservation_data, time_slots[k].minutes)
            /\ time_slots[k].count = 2
               <=> time_slots[k].time \in {Clock(9 * 60 + 20), Clock(9 * 60 + 30),
                                           Clock(9 * 60 + 40), Clock(9 * 60 + 50)}

\* C14 as stated: the slots with count 2 are 09:40 and 09:50
C14_OverlapTwoSlots ==
    TwoOverlapping =>
        \A k \in 1..Len(time_slots) :
            /\ time_slots[k].count = BufferHits(reservation_data, time_slots[k].minutes)
            /\ time_slots[k].count = 2
               <=> time_slots[k].time \in {Clock(9 * 60 + 40), Clock(9 * 60 + 50)}

\* the counts from 09:00 to 10:20 are 1, 1, 2, 2, 2, 2, 1, 1, 0
C14_Witness ==
    /\ TwoOverlapping
    /\ pc = "info"
    /\ [k \in 7..15 |-> time_slots[k].count]
       = [k \in 7..15 |-> IF k \in 9..12 THEN 2 ELSE IF k = 15 THEN 0 ELSE 1]
    /\ time_slots[9].time = <<"0", "9", ":", "2", "0">>

\* the counts of the slots r agree with the row j of the heatmap
CountsAgree(r, j) ==
    /\ Len(r.time_slots) = Len(z_data_summary[j])
    /\ \A i \in 1..Len(r.time_slots) : r.time_slots[i].count = z_data_summary[j][i]

\* C15: after a run with 'All Dates', for every location-date group g of the heatmap and
\* every slot, the count that calculate_time_slots gives when it is called on the same
\* records and hours with selected_location_date = g equals the value of the row of g.
C15_FilterThenCount ==
    (HeatmapShown /\ selected_location_date = AllDates) =>
        \A j \in 1..DateRows :
            CountsAgree(calculate_time_slots(location_filtered_data, start_hour, end_hour,
                                             y_labels_summary[j].location_date),
                        j)

\* the list xs with its elements at a and b exchanged
Swapped(xs, a, b) ==
    List([k \in 1..Len(xs) |-> IF k = a THEN xs[b] ELSE IF k = b THEN xs[a] ELSE xs[k]])

\* the rows of a heatmap by their group, and its average row
RowsByGroup(z, labels) ==
    {<<labels[j].location_date, z[j]>> : j \in 1..(Len(z) - 1)}

\* the heatmap h has the rows of the heatmap shown, group by group, and its average row
SameRows(h) ==
    /\ RowsByGroup(h.z_data_summary, h.y_labels_summary)
       = RowsByGroup(z_data_summary, y_labels_summary)
    /\ h.z_data_summary[Len(h.z_data_summary)] = z_data_summary[Len(z_data_summary)]

\* C16: the rows of the groups do not depend on the order in which the reservations are
\* processed: with any two reservations exchanged (the exchanges generate every order)
\* create_heatmap computes the same row for every group and the same average row; every
\* kept reservation belongs to exactly one group of the heatmap; and at every slot the
\* sum of the rows of the groups is the pooled count of calculate_time_slots.
C16_OrderAndGrouping ==
    HeatmapShown =>
        /\ \A a, b \in 1..Len(reservation_data) :
              a < b =>
                  SameRows(create_heatmap(time_slots, Swapped(reservation_data, a, b),
                                          IF selected_location_date = AllDates THEN None
                                          ELSE selected_location_date,
                                          selected_location))
        /\ \A n \in 1..Len(reservation_data) :
              Cardinality({j \in 1..DateRows :
                              y_labels_summary[j].location_date
                              = reservation_data[n].location_date}) = 1
        /\ \A i \in 1..Len(time_slots) : ColumnSum(i) = time_slots[i].count

\* three reservations of three dates with 'All Dates': a slot counted 3 times, once in
\* the row of each group, and a slot counted twice
C16_Witness ==
    /\ HeatmapShown
    /\ selected_location_date = AllDates
    /\ Len(reservation_data) = 3
    /\ DateRows = 3
    /\ \E i \in 1..Len(time_slots) :
          /\ time_slots[i].count = 3
          /\ \A j \in 1..3 : z_data_summary[j][i] = 1
    /\ \E i \in 1..Len(time_slots) : time_slots[i].count = 2

\* C17: on a grid with start_hour < end_hour every reservation calculate_time_slots
\* keeps (returns in filtered_data, so not reported as hidden) increments at least one
\* slot and at most six slots.
C17_KeptHitsSomeSlot ==
    (Counted /\ start_hour < end_hour) =>
        \A n \in 1..Len(reservation_data) :
            LET hits == Cardinality({i \in 1..Len(time_slots) :
                                        InBuffer(time_to_minutes(reservation_data[n].time),
                                                 time_slots[i].minutes)})
            IN  (hits >= 1) /\ (hits <= 6)

====
